---- MODULE Spec2Model ----
(***************************************************************************)
(* Genki Quiz (src/main.go): the loader loadQuestionsFromExcel, the        *)
(* question bank helpers getQuestionsByChapter and getRandomAnswers, and   *)
(* the UI callbacks of main() that share the captured variables score and  *)
(* currentChapter.                                                         *)
(* main.go holds two variants of main(): variant 1 (lines 87-197) switches *)
(* between a chapter menu and the game layout, variant 2 (lines 285-370)   *)
(* shows the chapter selector and the game on one screen.                  *)
(***************************************************************************)
EXTENDS Integers, Sequences, FiniteSets, TLC

\* ------------------------------------------------------------ bounds
MaxBank == 4        \* questions in the bank of a quiz run
MaxAsked == 4       \* answers submitted between two chapter selections
MaxScore == 2       \* cap of the score counter
MaxPool == 4        \* questions handed to getRandomAnswers on its own
MaxCount == 4       \* count handed to getRandomAnswers on its own
MaxRows == 4        \* rows of the sheet handed to loadQuestionsFromExcel

\* ------------------------------------------------------------ data
\* The labels of the chapter radio group.
RadioChapters == {"1", "2", "3", "4"}
\* The (chapter, answer) pairs the rows of the model's banks are drawn from.
BankRows == <<(<<"1", "A">>), (<<"1", "B">>), (<<"2", "A">>), (<<"2", "B">>)>>
PoolAnswers == {"A", "B", "C"}

\* The rows a sheet of the model is made of, as GetRows returns them: the
\* header, an empty row, a row of 5 cells, two complete rows of chapter "1",
\* a complete row with an empty answer cell and a row of 7 cells.
SheetRows ==
    {<<"QID", "QChapter", "QAnswer", "QHirakata", "QRomaji", "QType">>,
     <<>>,
     <<"5", "1", "A", "P5", "H5">>,
     <<"1", "1", "A", "P1", "H1", "X">>,
     <<"2", "1", "B", "P2", "H2", "X">>,
     <<"3", "2", "", "P3", "H3", "X">>,
     <<"4", "2", "C", "P4", "H4", "X", "note">>}

\* What excelize finds at the file path: OpenFile fails, GetRows("Sheet1")
\* fails, or a sheet of up to MaxRows rows.
Files ==
    {[err |-> e, rows |-> <<>>] : e \in {"OpenFile", "GetRows"}}
      \cup UNION {{[err |-> "", rows |-> r] : r \in [1..n -> SheetRows]} : n \in 0..MaxRows}

\* The chapter keys handed to getQuestionsByChapter on its own.
ChapterKeys == {"1", "2", "3"}

\* The count main() passes to getRandomAnswers.
WrongCount == 3

NoQuestionsText == "No questions available for this chapter."

\* One row of the bank as a Question; the id, prompt and romaji follow the row number.
MkQuestion(i, ch, ans) ==
    [QID |-> ToString(i), QChapter |-> ch, QAnswer |-> ans,
     QHirakata |-> "h" \o ToString(i), QRomaji |-> "r" \o ToString(i), QType |-> "t"]

\* The banks of the model: up to MaxBank rows, rows of one kind next to each other.
Banks ==
    UNION {{[i \in 1..n |-> MkQuestion(i, BankRows[f[i]][1], BankRows[f[i]][2])] :
              f \in {g \in [1..n -> DOMAIN BankRows] :
                        \A i \in 1..(n - 1) : g[i] <= g[i + 1]}} : n \in 0..MaxBank}

Pools ==
    UNION {{[i \in 1..n |-> MkQuestion(i, "1", f[i])] :
              f \in [1..n -> PoolAnswers]} : n \in 0..MaxPool}

\* ------------------------------------------------------------ helpers
Range(s) == {s[i] : i \in DOMAIN s}

\* Every order rand.Shuffle can leave a slice in.
Shuffles(s) == {[i \in 1..Len(s) |-> s[p[i]]] : p \in Permutations(1..Len(s))}

\* Capacity of a slice grown from nil by n single appends (Go's growslice:
\* 0, 1, then doubling).
RECURSIVE AppendCap(_)
AppendCap(n) ==
    IF n = 0 THEN 0
    ELSE LET c == AppendCap(n - 1)
         IN  IF n <= c THEN c ELSE IF c = 0 THEN 1 ELSE 2 * c

\* s[:count] of a slice whose spare capacity holds zero values ("").
SliceTo(s, count) == [i \in 1..count |-> IF i <= Len(s) THEN s[i] ELSE ""]

\* A filter with the comparison turned round.
getQuestionsByChapterOthers(qs, chapter) ==
    SelectSeq(qs, LAMBDA q : q.QChapter # chapter)

getQuestionsByChapter(qs, chapter) ==
    SelectSeq(qs, LAMBDA q : q.QChapter = chapter)

\* The Question built from a row of at least 6 cells.
RowToQuestion(row) ==
    [QID |-> row[1], QChapter |-> row[2], QAnswer |-> row[3],
     QHirakata |-> row[4], QRomaji |-> row[5], QType |-> row[6]]

\* A loop over all rows, the header included.
DataRowsWithHeader(rows) == rows

\* rows[1:], for a sheet with at least one row.
DataRows(rows) == Tail(rows)

\* The outcomes of loadQuestionsFromExcel: the error of OpenFile or GetRows,
\* a panic of rows[1:] (slice bounds out of range) on a sheet without rows,
\* else the questions of the rows after the first that have 6 cells or more.
loadQuestionsFromExcel(file) ==
    IF file.err # ""
    THEN [outcome |-> "error", questions |-> <<>>]
    ELSE IF Len(file.rows) < 1
    THEN [outcome |-> "panic", questions |-> <<>>]
    ELSE LET kept == SelectSeq(DataRows(file.rows), LAMBDA row : ~(Len(row) < 6))
         IN  [outcome |-> "ok",
              questions |-> [i \in 1..Len(kept) |-> RowToQuestion(kept[i])]]

\* The answers slice built by the loop of getRandomAnswers.
WrongAnswers(qs, correctAnswer) ==
    LET wrong == SelectSeq(qs, LAMBDA q : q.QAnswer # correctAnswer)
    IN  [i \in 1..Len(wrong) |-> wrong[i].QAnswer]

\* A getRandomAnswers that does not leave out the correct answer.
getRandomAnswersAny(qs, correctAnswer, count) ==
    LET answers == [i \in 1..Len(qs) |-> qs[i].QAnswer]
    IN  IF count > AppendCap(Len(answers))
        THEN {[panic |-> TRUE, answers |-> <<>>]}
        ELSE {[panic |-> FALSE, answers |-> SliceTo(sh, count)] : sh \in Shuffles(answers)}

\* The outcomes of getRandomAnswers: a panic (slice bounds out of range) when
\* count exceeds the capacity of answers, else answers[:count] of some shuffle.
getRandomAnswers(qs, correctAnswer, count) ==
    LET answers == WrongAnswers(qs, correctAnswer)
    IN  IF count > AppendCap(Len(answers))
        THEN {[panic |-> TRUE, answers |-> <<>>]}
        ELSE {[panic |-> FALSE, answers |-> SliceTo(sh, count)] : sh \in Shuffles(answers)}

\* The option buttons loadQuestion builds: one per answer, each closing over q.
Buttons(allAnswers, q) == [i \in 1..Len(allAnswers) |-> [opt |-> allAnswers[i], q |-> q]]

\* An empty-chapter branch that leaves the old option buttons in place.
NoQuestionsKeepOptions(oldRomaji, oldButtons) ==
    [questionLabel |-> NoQuestionsText, romajiLabel |-> oldRomaji,
     optionsContainer |-> oldButtons, crashed |-> FALSE, shown |-> {}]

\* The empty-chapter branch of loadQuestion(): the message, no options, return.
NoQuestions(oldRomaji, oldButtons) ==
    [questionLabel |-> NoQuestionsText, romajiLabel |-> oldRomaji,
     optionsContainer |-> <<>>, crashed |-> FALSE, shown |-> {}]

\* A score that counts every submitted answer.
ScoreAfterAlways(opt, q, s) == s + 1

\* A score that adds two for a correct answer.
ScoreAfterDouble(opt, q, s) == IF opt = q.QAnswer THEN s + 2 ELSE s

\* The score after the callback of an option button labelled opt, built for question q.
ScoreAfter(opt, q, s) == IF opt = q.QAnswer THEN s + 1 ELSE s

\* loadQuestion() from its nil check on, for the filtered chapterQuestions:
\* what it leaves in the labels and the options container, whether it
\* panicked, and the id of the question it put on screen.
PresentFrom(chapterQuestions, oldRomaji, oldButtons) ==
    IF Len(chapterQuestions) = 0
    THEN {NoQuestions(oldRomaji, oldButtons)}
    ELSE UNION {
           LET q == chapterQuestions[k]
           IN  UNION {
                 IF r.panic
                 THEN {[questionLabel |-> q.QHirakata,
                        romajiLabel |-> "Romaji: " \o q.QRomaji,
                        optionsContainer |-> oldButtons,
                        crashed |-> TRUE, shown |-> {q.QID}]}
                 ELSE {[questionLabel |-> q.QHirakata,
                        romajiLabel |-> "Romaji: " \o q.QRomaji,
                        optionsContainer |-> Buttons(allAnswers, q),
                        crashed |-> FALSE, shown |-> {q.QID}] :
                          allAnswers \in Shuffles(Append(r.answers, q.QAnswer))}
                 : r \in getRandomAnswers(chapterQuestions, q.QAnswer, WrongCount)}
           : k \in 1..Len(chapterQuestions)}

\* A loadQuestion that draws from the whole bank instead of the chapter.
loadQuestionAnyChapter(qs, chapter, oldRomaji, oldButtons) ==
    PresentFrom(qs, oldRomaji, oldButtons)

\* The outcomes of loadQuestion() for the bank qs and the chapter selected.
loadQuestion(qs, chapter, oldRomaji, oldButtons) ==
    PresentFrom(getQuestionsByChapter(qs, chapter), oldRomaji, oldButtons)

\* ------------------------------------------------------------ state
VARIABLES
    variant,           \* which main() of main.go runs: 1 or 2
    questions,         \* the bank loaded at startup
    score,             \* captured variable score
    currentChapter,    \* captured variable currentChapter
    questionContainer, \* what the window shows: "menu" or "game"
    questionLabel,     \* text of questionLabel
    romajiLabel,       \* text of romajiLabel
    optionsContainer,  \* the option buttons, each with the opt and q it closed over
    scoreLabel,        \* the score shown by scoreLabel
    crashed,           \* a callback panicked: the process is gone
    askedCount,        \* history: answers submitted since the last chapter selection
    askedIDs,          \* history: ids put on screen since the last chapter selection
    lastCallback,      \* history: the callback that ran last, and the option label it was for
    answered,          \* history: a callback of the option buttons on screen has run
    argPool,           \* getRandomAnswers on its own: questions
    argCorrect,        \* getRandomAnswers on its own: correctAnswer
    argCount,          \* getRandomAnswers on its own: count
    pickState,         \* "idle", "returned" or "panicked"
    randomAnswers,     \* the slice getRandomAnswers returned
    file,              \* the loader on its own: what is at the file path
    loadState,         \* "idle", "returned", "failed" or "panicked"
    argChapter,        \* getQuestionsByChapter on its own: chapter
    filterState,       \* "idle" or "returned"
    filtered           \* the slice getQuestionsByChapter returned

uiVars == <<questionLabel, romajiLabel, optionsContainer, crashed>>
gameVars == <<variant, questions, score, currentChapter, questionContainer,
              questionLabel, romajiLabel, optionsContainer, scoreLabel, crashed,
              askedCount, askedIDs, lastCallback, answered>>
pickVars == <<argPool, argCorrect, argCount, pickState, randomAnswers>>
loadVars == <<file, loadState, argChapter, filterState, filtered>>
vars == <<variant, questions, score, currentChapter, questionContainer,
          questionLabel, romajiLabel, optionsContainer, scoreLabel, crashed,
          askedCount, askedIDs, lastCallback, answered,
          argPool, argCorrect, argCount, pickState, randomAnswers,
          file, loadState, argChapter, filterState, filtered>>

\* A callback of the UI: its name and, for an option button, the button's label.
Callback(name, opt) == [name |-> name, opt |-> opt]

\* The selected chapter's questions.
Pool == getQuestionsByChapter(questions, currentChapter)

\* What the closures of main() share: the captured variables and the widgets.
Captured ==
    [score |-> score, currentChapter |-> currentChapter,
     questionContainer |-> questionContainer, questionLabel |-> questionLabel,
     romajiLabel |-> romajiLabel, optionsContainer |-> optionsContainer,
     scoreLabel |-> scoreLabel]

\* A showChapterSelection that switches between the menu and the game layout.
showChapterSelectionToggle(s) ==
    [s EXCEPT !.questionContainer = IF @ = "menu" THEN "game" ELSE "menu"]

\* showChapterSelection() on the shared state s: the menu replaces the
\* objects of questionContainer; nothing else is assigned.
showChapterSelectionOn(s) == [s EXCEPT !.questionContainer = "menu"]

\* The next state of the labels and the options container after loadQuestion left o.
Loaded(o) ==
    /\ questionLabel' = o.questionLabel
    /\ romajiLabel' = o.romajiLabel
    /\ optionsContainer' = o.optionsContainer
    /\ crashed' = o.crashed

PickIdle ==
    /\ argPool = <<>>
    /\ argCorrect = ""
    /\ argCount = 0
    /\ pickState = "idle"
    /\ randomAnswers = <<>>

LoadIdle ==
    /\ file = [err |-> "", rows |-> <<>>]
    /\ loadState = "idle"
    /\ argChapter = ""
    /\ filterState = "idle"
    /\ filtered = <<>>

\* main() up to w.ShowAndRun(): variant 1 shows the chapter menu, variant 2
\* selects chapter "1" and loads the first question.
Init ==
    /\ variant \in {1, 2}
    /\ questions \in Banks
    /\ score = 0
    /\ scoreLabel = 0
    /\ askedCount = 0
    /\ lastCallback = Callback("main", "")
    /\ answered = FALSE
    /\ PickIdle
    /\ LoadIdle
    /\ \/ /\ variant = 1
          /\ currentChapter = ""
          /\ questionContainer = "menu"
          /\ questionLabel = ""
          /\ romajiLabel = ""
          /\ optionsContainer = <<>>
          /\ crashed = FALSE
          /\ askedIDs = {}
       \/ /\ variant = 2
          /\ currentChapter = "1"
          /\ questionContainer = "game"
          /\ \E o \in loadQuestion(questions, "1", "", <<>>) :
                /\ questionLabel = o.questionLabel
                /\ romajiLabel = o.romajiLabel
                /\ optionsContainer = o.optionsContainer
                /\ crashed = o.crashed
                /\ askedIDs = o.shown

\* A chapter selection that starts the score again.
SelectChapterReset(selected) ==
    /\ variant = 1
    /\ ~crashed
    /\ questionContainer = "menu"
    /\ currentChapter' = selected
    /\ questionContainer' = "game"
    /\ score' = 0
    /\ scoreLabel' = 0
    /\ \E o \in loadQuestion(questions, selected, romajiLabel, optionsContainer) :
          /\ Loaded(o)
          /\ askedIDs' = o.shown
          /\ answered' = (o.crashed /\ answered)
    /\ askedCount' = 0
    /\ lastCallback' = Callback("SelectChapter", "")
    /\ UNCHANGED <<variant, questions, pickVars, loadVars>>

\* Variant 1: a chapter is picked in the menu's radio group.
SelectChapter(selected) ==
    /\ variant = 1
    /\ ~crashed
    /\ questionContainer = "menu"
    /\ currentChapter' = selected
    /\ questionContainer' = "game"
    /\ \E o \in loadQuestion(questions, selected, romajiLabel, optionsContainer) :
          /\ Loaded(o)
          /\ askedIDs' = o.shown
          /\ answered' = (o.crashed /\ answered)
    /\ askedCount' = 0
    /\ lastCallback' = Callback("SelectChapter", "")
    /\ UNCHANGED <<variant, questions, score, scoreLabel, pickVars, loadVars>>

\* A "Change Chapter" that also resets the score.
showChapterSelectionReset ==
    /\ variant = 1
    /\ ~crashed
    /\ questionContainer = "game"
    /\ questionContainer' = "menu"
    /\ score' = 0
    /\ scoreLabel' = 0
    /\ lastCallback' = Callback("showChapterSelection", "")
    /\ UNCHANGED <<variant, questions, currentChapter, uiVars,
                   askedCount, askedIDs, answered, pickVars, loadVars>>

\* Variant 1: the "Change Chapter" button runs showChapterSelection.
showChapterSelection ==
    /\ variant = 1
    /\ ~crashed
    /\ questionContainer = "game"
    /\ LET s == showChapterSelectionOn(Captured)
       IN  /\ questionContainer' = s.questionContainer
           /\ score' = s.score
           /\ currentChapter' = s.currentChapter
           /\ scoreLabel' = s.scoreLabel
           /\ questionLabel' = s.questionLabel
           /\ romajiLabel' = s.romajiLabel
           /\ optionsContainer' = s.optionsContainer
    /\ lastCallback' = Callback("showChapterSelection", "")
    /\ UNCHANGED <<variant, questions, crashed,
                   askedCount, askedIDs, answered, pickVars, loadVars>>

\* Variant 2: the chapterSelector callback only stores the chapter.
chapterSelector(selected) ==
    /\ variant = 2
    /\ ~crashed
    /\ currentChapter' = selected
    /\ askedCount' = 0
    /\ askedIDs' = {}
    /\ lastCallback' = Callback("chapterSelector", "")
    /\ UNCHANGED <<variant, questions, score, questionContainer, scoreLabel, uiVars,
                   answered, pickVars, loadVars>>

\* A "Next Question" whose loadQuestion turns the bank round in place.
NextQuestionReversesBank ==
    /\ ~crashed
    /\ questionContainer = "game"
    /\ questions' = [i \in 1..Len(questions) |-> questions[Len(questions) + 1 - i]]
    /\ \E o \in loadQuestion(questions', currentChapter, romajiLabel, optionsContainer) :
          /\ Loaded(o)
          /\ askedIDs' = askedIDs \cup o.shown
          /\ answered' = (o.crashed /\ answered)
    /\ lastCallback' = Callback("NextQuestion", "")
    /\ UNCHANGED <<variant, score, currentChapter, questionContainer,
                   scoreLabel, askedCount, pickVars, loadVars>>

\* The "Next Question" button runs loadQuestion.
NextQuestion ==
    /\ ~crashed
    /\ questionContainer = "game"
    /\ \E o \in loadQuestion(questions, currentChapter, romajiLabel, optionsContainer) :
          /\ Loaded(o)
          /\ askedIDs' = askedIDs \cup o.shown
          /\ answered' = (o.crashed /\ answered)
    /\ lastCallback' = Callback("NextQuestion", "")
    /\ UNCHANGED <<variant, questions, score, currentChapter, questionContainer,
                   scoreLabel, askedCount, pickVars, loadVars>>

\* An option button that scores and leaves the question on screen.
OptionButtonNoAdvance(i) ==
    /\ ~crashed
    /\ questionContainer = "game"
    /\ i \in DOMAIN optionsContainer
    /\ askedCount < MaxAsked
    /\ score < MaxScore
    /\ score' = ScoreAfter(optionsContainer[i].opt, optionsContainer[i].q, score)
    /\ scoreLabel' = score'
    /\ askedCount' = askedCount + 1
    /\ lastCallback' = Callback("OptionButton", optionsContainer[i].opt)
    /\ answered' = TRUE
    /\ UNCHANGED <<variant, questions, currentChapter, questionContainer, uiVars,
                   askedIDs, pickVars, loadVars>>

\* An option button that ends the quiz once every question of the pool was answered.
OptionButtonSummary(i) ==
    /\ ~crashed
    /\ questionContainer = "game"
    /\ i \in DOMAIN optionsContainer
    /\ askedCount < MaxAsked
    /\ score < MaxScore
    /\ score' = ScoreAfter(optionsContainer[i].opt, optionsContainer[i].q, score)
    /\ scoreLabel' = score'
    /\ IF askedCount + 1 >= Len(Pool)
       THEN /\ optionsContainer' = <<>>
            /\ answered' = FALSE
            /\ UNCHANGED <<questionLabel, romajiLabel, crashed, askedIDs>>
       ELSE \E o \in loadQuestion(questions, currentChapter, romajiLabel, optionsContainer) :
               /\ Loaded(o)
               /\ askedIDs' = askedIDs \cup o.shown
               /\ answered' = o.crashed
    /\ askedCount' = askedCount + 1
    /\ lastCallback' = Callback("OptionButton", optionsContainer[i].opt)
    /\ UNCHANGED <<variant, questions, currentChapter, questionContainer, pickVars, loadVars>>

\* The callback of option button i: score, score label, then loadQuestion.
OptionButton(i) ==
    /\ ~crashed
    /\ questionContainer = "game"
    /\ i \in DOMAIN optionsContainer
    /\ askedCount < MaxAsked
    /\ score < MaxScore
    /\ score' = ScoreAfter(optionsContainer[i].opt, optionsContainer[i].q, score)
    /\ scoreLabel' = score'
    /\ \E o \in loadQuestion(questions, currentChapter, romajiLabel, optionsContainer) :
          /\ Loaded(o)
          /\ askedIDs' = askedIDs \cup o.shown
          /\ answered' = o.crashed
    /\ askedCount' = askedCount + 1
    /\ lastCallback' = Callback("OptionButton", optionsContainer[i].opt)
    /\ UNCHANGED <<variant, questions, currentChapter, questionContainer, pickVars, loadVars>>

Next ==
    \/ \E selected \in RadioChapters : SelectChapter(selected)
    \/ showChapterSelection
    \/ \E selected \in RadioChapters : chapterSelector(selected)
    \/ NextQuestion
    \/ \E i \in DOMAIN optionsContainer : OptionButton(i)

Spec == Init /\ [][Next]_vars

\* ------------------------------------------------------------ properties of the quiz
\* An answer is submitted: the step is an option button's callback.
SubmitStep == lastCallback'.name = "OptionButton"

\* loadQuestion runs within a session: the Next Question button or an option button.
ReloadStep == lastCallback'.name \in {"NextQuestion", "OptionButton"}

\* loadQuestion runs: a chapter picked in the menu, the Next Question button or an option button.
LoadStep == lastCallback'.name \in {"SelectChapter", "NextQuestion", "OptionButton"}

\* The question whose prompt questionLabel shows.
PresentedQuestion == CHOOSE q \in Range(questions) : q.QHirakata = questionLabel

\* C1 (as claimed): at every point 0 <= score <= askedCount <= totalQuestions <= len(pool),
\* for some totalQuestions, askedCount being the answers submitted since the chapter was selected.
C1_ScoreAskedTotalPool ==
    \E totalQuestions \in 0..Len(Pool) :
        /\ 0 <= score
        /\ score <= askedCount
        /\ askedCount <= totalQuestions

\* C1 (amended): score is never negative and changes only when an answer is
\* submitted, and then by at most 1.
C1_ScoreGrowsWithAnswers ==
    [][/\ score' >= 0
       /\ score' - score \in {0, 1}
       /\ (score' # score => askedCount' = askedCount + 1)]_vars

\* C1 witness: two answers were submitted and both scored.
C1_Witness == score = 2 /\ askedCount = 2

\* C2 (as claimed): while some question of the pool has not been presented in the
\* session, loadQuestion presents no question whose id was already presented.
C2_NoRepeat ==
    [][(/\ ReloadStep
        /\ ~crashed'
        /\ optionsContainer' # <<>>
        /\ \E q \in Range(Pool) : q.QID \notin askedIDs)
       => optionsContainer'[1].q.QID \notin askedIDs]_vars

\* C2 (amended): whenever loadQuestion runs on a chapter with questions, the
\* question it puts on screen is some question of the selected chapter's pool,
\* whether presented before or not.
C2_PickFromPool ==
    [][(LoadStep /\ Pool' # <<>>)
       => \E q \in Range(Pool') : /\ questionLabel' = q.QHirakata
                                  /\ q.QID \in askedIDs']_vars

\* C2 witness: variant 1 loaded a question twice in one session of a pool with
\* several questions, and only one id was ever on screen.
C2_Witness ==
    /\ variant = 1
    /\ questionContainer = "game"
    /\ ~crashed
    /\ askedCount >= 1
    /\ Cardinality(askedIDs) = 1
    /\ Len(Pool) >= 2

\* C3 (as claimed): once as many answers were submitted as the pool has
\* questions, no further question is presented.
C3_SummaryAfterPool ==
    (Len(Pool) >= 1 /\ askedCount >= Len(Pool) /\ ~crashed) => optionsContainer = <<>>

\* C3 (amended): there is no quiz length and no summary; an answer submitted
\* when len(pool) or more answers were given is still followed by a question
\* of the pool, unless loadQuestion panics.
C3_NeverEnds ==
    [][(/\ SubmitStep
        /\ askedCount' >= Len(Pool')
        /\ Pool' # <<>>
        /\ ~crashed')
       => /\ optionsContainer' # <<>>
          /\ optionsContainer'[1].q \in Range(Pool')]_vars

\* C3 witness: a question is on screen after len(pool) answers were submitted.
C3_Witness ==
    /\ Pool # <<>>
    /\ askedCount >= Len(Pool)
    /\ ~crashed
    /\ optionsContainer # <<>>

\* C7 (as claimed): variant 1 with a selected chapter that has no questions is
\* back in the chapter menu.
C7_EmptyChapterBackToMenu ==
    (variant = 1 /\ currentChapter \in RadioChapters /\ Pool = <<>>)
        => questionContainer = "menu"

\* C7 (amended): loadQuestion on a chapter without questions shows the
\* no-questions message and no option buttons, raises no error and leaves the
\* window on the game layout.
C7_EmptyChapterMessage ==
    [][(LoadStep /\ Pool' = <<>>)
       => /\ questionLabel' = NoQuestionsText
          /\ optionsContainer' = <<>>
          /\ ~crashed'
          /\ questionContainer' = "game"]_vars

\* C7 witness: variant 1 shows the game layout with the no-questions message
\* for an empty chapter picked after a scored answer.
C7_Witness ==
    /\ variant = 1
    /\ currentChapter \in RadioChapters
    /\ Pool = <<>>
    /\ questionContainer = "game"
    /\ questionLabel = NoQuestionsText
    /\ score >= 1

\* C8 (as claimed): in the chapter menu the score is 0.
C8_MenuResetsScore == questionContainer = "menu" => (score = 0 /\ scoreLabel = 0)

\* C8 (amended): returning to the chapter menu and picking a chapter there
\* leave score and the score label as they were.
C8_ScoreKeptAcrossChapters ==
    [][(lastCallback'.name \in {"showChapterSelection", "SelectChapter"})
       => (score' = score /\ scoreLabel' = scoreLabel)]_vars

\* C8 witness: variant 1 starts a chapter with a score left from before.
C8_Witness ==
    /\ variant = 1
    /\ questionContainer = "game"
    /\ askedCount = 0
    /\ score >= 1

\* C9 (as claimed): submitting an answer leaves the question and its options on screen.
C9_SubmitKeepsQuestion ==
    [][(SubmitStep /\ ~crashed')
       => (questionLabel' = questionLabel /\ optionsContainer' = optionsContainer)]_vars

\* C9 (amended): submitting an answer runs loadQuestion in the same callback:
\* right after it the screen shows a question of the selected chapter with its
\* options, or the no-questions message without options, or the process panicked.
C9_SubmitLoadsNext ==
    [][SubmitStep
       => \/ crashed'
          \/ /\ Pool' = <<>>
             /\ questionLabel' = NoQuestionsText
             /\ optionsContainer' = <<>>
          \/ /\ optionsContainer' # <<>>
             /\ optionsContainer'[1].q \in Range(Pool')
             /\ questionLabel' = optionsContainer'[1].q.QHirakata]_vars

\* C9 witness: right after an option button a question of the pool is on screen.
C9_Witness ==
    /\ lastCallback.name = "OptionButton"
    /\ ~crashed
    /\ optionsContainer # <<>>
    /\ optionsContainer[1].q \in Range(Pool)

\* C10: the callback of an option button adds exactly 1 to score when its
\* label equals the answer of the question on screen, and leaves score
\* unchanged otherwise.
C10_ScoreIffCorrect ==
    [][SubmitStep
       => score' = score + (IF lastCallback'.opt = PresentedQuestion.QAnswer
                            THEN 1 ELSE 0)]_vars

\* C10 witness: of two answers submitted one scored.
C10_Witness == score = 1 /\ askedCount = 2 /\ ~crashed

\* ------------------------------------------------------------ getRandomAnswers on its own
GameIdle ==
    /\ variant = 1
    /\ questions = <<>>
    /\ score = 0
    /\ scoreLabel = 0
    /\ currentChapter = ""
    /\ questionContainer = "menu"
    /\ questionLabel = ""
    /\ romajiLabel = ""
    /\ optionsContainer = <<>>
    /\ crashed = FALSE
    /\ askedCount = 0
    /\ askedIDs = {}
    /\ lastCallback = Callback("main", "")
    /\ answered = FALSE

InitPick ==
    /\ GameIdle
    /\ LoadIdle
    /\ argPool \in Pools
    /\ argCorrect \in PoolAnswers
    /\ argCount \in 0..MaxCount
    /\ pickState = "idle"
    /\ randomAnswers = <<>>

CallGetRandomAnswers ==
    /\ pickState = "idle"
    /\ \E r \in getRandomAnswers(argPool, argCorrect, argCount) :
          /\ pickState' = IF r.panic THEN "panicked" ELSE "returned"
          /\ randomAnswers' = r.answers
    /\ UNCHANGED <<argPool, argCorrect, argCount, gameVars, loadVars>>

NextPick == CallGetRandomAnswers

SpecPick == InitPick /\ [][NextPick]_vars

\* ------------------------------------------------------------ properties of getRandomAnswers
\* The distinct wrong answers of the pool handed to getRandomAnswers.
DistinctWrong == {q.QAnswer : q \in {x \in Range(argPool) : x.QAnswer # argCorrect}}

\* C4 (as claimed): when the pool holds fewer than count distinct wrong answers,
\* getRandomAnswers returns, without failing, exactly the distinct wrong answers.
C4_ShortPoolReturnsAvailable ==
    (pickState # "idle" /\ Cardinality(DistinctWrong) < argCount)
        => /\ pickState = "returned"
           /\ Len(randomAnswers) = Cardinality(DistinctWrong)
           /\ Range(randomAnswers) = DistinctWrong

\* C5 (as claimed): the answers getRandomAnswers returns hold no string twice.
C5_NoDuplicates ==
    pickState = "returned"
        => \A i, j \in DOMAIN randomAnswers : i # j => randomAnswers[i] # randomAnswers[j]

\* C6 (as claimed): no answer getRandomAnswers returns is the correct answer,
\* and each is the answer of some question of the pool.
C6_WrongAnswersOfPool ==
    pickState = "returned"
        => \A i \in DOMAIN randomAnswers :
              /\ randomAnswers[i] # argCorrect
              /\ \E q \in Range(argPool) : q.QAnswer = randomAnswers[i]

\* ------------------------------------------------------------ the loader and the chapter filter on their own
InitLoad ==
    /\ GameIdle
    /\ PickIdle
    /\ file \in Files
    /\ loadState = "idle"
    /\ argChapter \in ChapterKeys
    /\ filterState = "idle"
    /\ filtered = <<>>

\* main() calls loadQuestionsFromExcel and stops with log.Fatalf on an error.
CallLoadQuestionsFromExcel ==
    /\ loadState = "idle"
    /\ LET r == loadQuestionsFromExcel(file)
       IN  /\ questions' = r.questions
           /\ loadState' = CASE r.outcome = "ok" -> "returned"
                              [] r.outcome = "error" -> "failed"
                              [] OTHER -> "panicked"
    /\ UNCHANGED <<variant, score, currentChapter, questionContainer, questionLabel,
                   romajiLabel, optionsContainer, scoreLabel, crashed, askedCount,
                   askedIDs, lastCallback, answered, pickVars,
                   file, argChapter, filterState, filtered>>

\* getQuestionsByChapter on the loaded bank.
CallGetQuestionsByChapter ==
    /\ loadState = "returned"
    /\ filterState = "idle"
    /\ filtered' = getQuestionsByChapter(questions, argChapter)
    /\ filterState' = "returned"
    /\ UNCHANGED <<gameVars, pickVars, file, loadState, argChapter>>

NextLoad ==
    \/ CallLoadQuestionsFromExcel
    \/ CallGetQuestionsByChapter

SpecLoad == InitLoad /\ [][NextLoad]_vars

\* ------------------------------------------------------------ properties of the loader and the filter
\* The j-th smallest element of a set of indices.
NthOf(S, j) == CHOOSE i \in S : Cardinality({m \in S : m < i}) = j - 1

\* C11 (as claimed): loadQuestionsFromExcel returns a bank for every file that
\* can be opened and read, a sheet without rows included, and fails exactly
\* when OpenFile or GetRows fails.
C11_LoadFailsOnlyUnreadable ==
    loadState # "idle"
        => /\ (file.err = "" => loadState = "returned")
           /\ (file.err # "" => loadState = "failed")

\* C12 (as claimed): every question of the loaded bank has a non-empty answer.
C12_AnswersNonEmpty ==
    loadState = "returned" => \A q \in Range(questions) : q.QAnswer # ""

\* C13: getQuestionsByChapter returns the questions of the bank whose chapter
\* equals the key, each once and in the order of the bank, and the empty
\* sequence when no question has that chapter.
C13_FilterInBankOrder ==
    filterState = "returned"
        => LET M == {i \in DOMAIN questions : questions[i].QChapter = argChapter}
           IN  /\ Len(filtered) = Cardinality(M)
               /\ \A j \in DOMAIN filtered : filtered[j] = questions[NthOf(M, j)]

\* C13 witness: of a bank of three questions the filter returned two.
C13_Witness ==
    /\ filterState = "returned"
    /\ Len(questions) = 3
    /\ Len(filtered) = 2

\* C14: when loadQuestionsFromExcel returns, the bank holds one question for
\* every row after the first that has 6 cells or more, in row order, with
\* cells 1..6 as QID, QChapter, QAnswer, QHirakata, QRomaji, QType; the first
\* row and the rows with fewer than 6 cells give no question.
C14_RowsToQuestions ==
    loadState = "returned"
        => LET K == {i \in 2..Len(file.rows) : Len(file.rows[i]) >= 6}
           IN  /\ Len(questions) = Cardinality(K)
               /\ \A j \in DOMAIN questions :
                     LET row == file.rows[NthOf(K, j)]
                     IN  /\ questions[j].QID = row[1]
                         /\ questions[j].QChapter = row[2]
                         /\ questions[j].QAnswer = row[3]
                         /\ questions[j].QHirakata = row[4]
                         /\ questions[j].QRomaji = row[5]
                         /\ questions[j].QType = row[6]

\* C14 witness: a sheet of four rows whose first row is complete and which has
\* a short row among the others was loaded into two questions.
C14_Witness ==
    /\ loadState = "returned"
    /\ Len(file.rows) = 4
    /\ Len(file.rows[1]) >= 6
    /\ \E i \in 2..4 : Len(file.rows[i]) < 6
    /\ Len(questions) = 2

\* ------------------------------------------------------------ further properties of the quiz
\* C15 (as claimed): showChapterSelection run again on the state it left gives
\* that same state, and the state is the fresh chapter menu: score 0, no
\* answers counted, no question presented.
C15_RestartFresh ==
    lastCallback.name = "showChapterSelection"
        => /\ showChapterSelectionOn(Captured) = Captured
           /\ questionContainer = "menu"
           /\ score = 0
           /\ scoreLabel = 0
           /\ askedCount = 0
           /\ askedIDs = {}

\* C15 (amended): showChapterSelection run again on the state it left gives
\* that same state: the chapter menu, with score, chapter, labels and options
\* as they were before the first run.
C15_ChangeChapterIdempotent ==
    lastCallback.name = "showChapterSelection"
        => /\ showChapterSelectionOn(Captured) = Captured
           /\ questionContainer = "menu"

\* C15 witness: showChapterSelection ran on a session with a score.
C15_Witness ==
    /\ lastCallback.name = "showChapterSelection"
    /\ score >= 1
    /\ optionsContainer # <<>>

\* C16: no step of the UI changes the contents or the order of the bank.
C16_BankReadOnly == [][questions' = questions]_vars

\* C16 witness: an answer was submitted and a next question presented from a
\* bank of several questions.
C16_Witness ==
    /\ lastCallback.name = "OptionButton"
    /\ Len(questions) >= 2
    /\ askedCount >= 2
    /\ ~crashed
    /\ optionsContainer # <<>>

C18_OptionsHoldAnswerOnce ==
    (~crashed /\ optionsContainer # <<>>)
        => LET q == optionsContainer[1].q
               pool == getQuestionsByChapter(questions, q.QChapter)
           IN  /\ \A i \in DOMAIN optionsContainer : optionsContainer[i].q = q
               /\ Cardinality({i \in DOMAIN optionsContainer :
                                  optionsContainer[i].opt = q.QAnswer}) = 1
               /\ Len(optionsContainer) <= 4
               /\ \A i \in DOMAIN optionsContainer :
                     optionsContainer[i].opt # q.QAnswer
                        => \E x \in Range(pool) : x.QAnswer = optionsContainer[i].opt

\* C18 witness: a question is on screen with 4 options after an answer.
C18_Witness ==
    /\ lastCallback.name = "OptionButton"
    /\ ~crashed
    /\ Len(optionsContainer) = 4

\* C19 (as claimed): the question whose option buttons are on screen is a
\* question of the selected chapter.
C19_PresentedInCurrentChapter ==
    (~crashed /\ optionsContainer # <<>>)
        => optionsContainer[1].q.QChapter = currentChapter

\* C20: the Next Question button and the selection of a chapter leave score
\* as it is; score changes only in the callback of an option button.
C20_ScoreOnlyBySubmit ==
    [][/\ (lastCallback'.name \in {"NextQuestion", "SelectChapter", "chapterSelector"}
            => score' = score)
       /\ (score' # score => SubmitStep)]_vars

\* C20 witness: Next Question skipped a question of a session with a score.
C20_Witness ==
    /\ lastCallback.name = "NextQuestion"
    /\ score >= 1
    /\ ~crashed
    /\ optionsContainer # <<>>

====
